---- MODULE Spec2Model ----
(***************************************************************************)
(* A model of the PDF OCR-need analyzer: src/PDF_Ocr_Analyzer.py (the      *)
(* batch program) and src/TextQualityCheck.py (its single-file twin).      *)
(*                                                                         *)
(* Python floats are modelled as exact rationals <<num, den>> (den > 0,    *)
(* lowest terms). A single quotient of small integers compares with the    *)
(* literals 0.3, 0.5, 0.02, 5 and 50 as the exact rational does. np.mean   *)
(* is modelled exactly; the double it returns can differ from the exact    *)
(* mean in the last place (ten pages of density 0.02 average to just under *)
(* 0.02 in doubles), which the model does not show.                        *)
(* print is taken not to raise, and a page image to have at least one      *)
(* pixel. The libraries (fitz, pdf2image, cv2, numpy, os, shutil) are the  *)
(* environment: their outcomes are chosen nondeterministically from the    *)
(* sets a document descriptor allows.                                      *)
(***************************************************************************)
EXTENDS Integers, Sequences, FiniteSets, TLC

(***************************************************************************)
(* Bounds of the model.                                                    *)
(***************************************************************************)
\* Largest number of PDF files the folder holds (specification Spec).
MaxFiles == 2
\* Largest page count of the freely chosen document (specification SpecDoc).
MaxPages == 3
\* Largest page count of a document in the estimator's own specification.
MaxDocPages == 11
\* Largest sample size handed to the estimator in its own specification.
MaxSample == 11

(***************************************************************************)
(* Program constants.                                                      *)
(***************************************************************************)
DefaultSamplePages == 5
SampleCap == 10
BinThreshold == 127
BinMaxval == 255
BytesPerMb == 1048576
SizeLimitMb == 5
AvgTextLimit == 50
PageLimit == 10

(***************************************************************************)
(* Rationals standing for Python floats.                                   *)
(***************************************************************************)
RECURSIVE Gcd(_, _)
Gcd(a, b) == IF b = 0 THEN a ELSE Gcd(b, a % b)

Abs(x) == IF x < 0 THEN -x ELSE x

\* n / d as a float (d > 0): a pair in lowest terms.
Div(n, d) ==
  LET g == Gcd(Abs(n), d)
  IN  <<n \div g, d \div g>>

Float(n) == <<n, 1>>

RLt(a, b) == a[1] * b[2] < b[1] * a[2]

RAdd(a, b) == Div(a[1] * b[2] + b[1] * a[2], a[2] * b[2])

\* Python's min(a, b): a unless b < a.
PyMin(a, b) == IF RLt(b, a) THEN b ELSE a

RECURSIVE RSum(_)
RSum(s) == IF s = <<>> THEN Float(0) ELSE RAdd(s[1], RSum(Tail(s)))

\* np.mean of a non-empty list.
NpMean(s) == LET t == RSum(s) IN Div(t[1], t[2] * Len(s))

IntMin(a, b) == IF a < b THEN a ELSE b

IntMax(a, b) == IF a > b THEN a ELSE b

(***************************************************************************)
(* Page text: a sequence of characters; str.strip() drops the leading and  *)
(* trailing whitespace.                                                    *)
(***************************************************************************)
IsSpace(c) == c \in {" ", "\n", "\t"}

RECURSIVE LStrip(_)
LStrip(s) == IF s # <<>> /\ IsSpace(s[1]) THEN LStrip(Tail(s)) ELSE s

RECURSIVE RStrip(_)
RStrip(s) ==
  IF s # <<>> /\ IsSpace(s[Len(s)]) THEN RStrip(SubSeq(s, 1, Len(s) - 1)) ELSE s

Strip(s) == RStrip(LStrip(s))

Rep(c, n) == [i \in 1..n |-> c]

\* The texts page.get_text() returns in the model.
EmptyText == <<>>
BlankText == <<" ", "\n">>
ShortText == <<" ", "a", " ", "b", "\n">>
LongText == <<" ">> \o Rep("a", AvgTextLimit) \o <<"\n">>

(***************************************************************************)
(* Page images as pdf2image returns them, seen through np.array: a shape   *)
(* and the pixels in row order, each pixel the tuple of its channels.      *)
(***************************************************************************)
ImageNames == {"white", "half", "dark", "sparse", "la"}

ImageOf(name) ==
  CASE name = "white" ->
         [shape |-> <<1, 2, 3>>,
          data |-> << <<255, 255, 255>>, <<255, 255, 255>> >>]
    [] name = "half" ->
         [shape |-> <<1, 2, 3>>,
          data |-> << <<128, 128, 128>>, <<255, 0, 0>> >>]
    [] name = "dark" ->
         [shape |-> <<1, 2, 3>>,
          data |-> << <<0, 0, 0>>, <<127, 127, 127>> >>]
    [] name = "sparse" ->
         [shape |-> <<5, 10>>,
          data |-> [i \in 1..50 |-> IF i = 7 THEN <<0>> ELSE <<255>>]]
    [] OTHER ->
         [shape |-> <<1, 2, 2>>,
          data |-> << <<0, 255>>, <<0, 255>> >>]

\* cv2.cvtColor(.., COLOR_RGB2GRAY) on 8-bit pixels accepts 3 or 4 channels.
CvtColorRaises(img) == img.shape[3] \notin {3, 4}

CvtColor(img) ==
  [i \in 1..Len(img.data) |->
     (img.data[i][1] * 4899 + img.data[i][2] * 9617
        + img.data[i][3] * 1868 + 8192) \div 16384]

\* THRESH_BINARY in place of THRESH_BINARY_INV.
Threshold_binary(gray) ==
  [i \in 1..Len(gray) |-> IF gray[i] > BinThreshold THEN BinMaxval ELSE 0]

\* cv2.threshold(gray, 127, 255, THRESH_BINARY_INV).
Threshold(gray) ==
  [i \in 1..Len(gray) |-> IF gray[i] > BinThreshold THEN 0 ELSE BinMaxval]

CountEq(s, v) == Cardinality({i \in 1..Len(s) : s[i] = v})

\* The try block of calculate_text_density (PDF_Ocr_Analyzer.py).
DensityRaises(img) == Len(img.shape) = 3 /\ CvtColorRaises(img)

DensityOf(img) ==
  LET gray == IF Len(img.shape) = 3
              THEN CvtColor(img)
              ELSE [i \in 1..Len(img.data) |-> img.data[i][1]]
      binary == Threshold(gray)
      black_pixels == CountEq(binary, BinMaxval)
      total_pixels == img.shape[1] * img.shape[2]
  IN  PyMin(Div(black_pixels, total_pixels), Float(1))

\* The except clause returning 1.0 instead of 0.0.
calculate_text_density_one(img) ==
  IF DensityRaises(img) THEN Float(1) ELSE DensityOf(img)

calculate_text_density(img) ==
  IF DensityRaises(img) THEN Float(0) ELSE DensityOf(img)

(***************************************************************************)
(* The decision engine.                                                    *)
(***************************************************************************)
\* The engine with rule 3 written <= 0.02 instead of < 0.02.
needs_ocr_analysis_le(text, visual, file) ==
  \/ ~text.has_text_layer
  \/ RLt(text.text_pages_ratio, Div(3, 10))
  \/ ~RLt(Div(2, 100), visual)
  \/ (RLt(Float(SizeLimitMb), file.file_size_mb)
        /\ RLt(text.avg_text_per_page, Float(AvgTextLimit)))
  \/ (text.total_pages > PageLimit /\ RLt(text.text_pages_ratio, Div(5, 10)))

\* The engine with rule 3 left out.
needs_ocr_analysis_no_density(text, visual, file) ==
  \/ ~text.has_text_layer
  \/ RLt(text.text_pages_ratio, Div(3, 10))
  \/ (RLt(Float(SizeLimitMb), file.file_size_mb)
        /\ RLt(text.avg_text_per_page, Float(AvgTextLimit)))
  \/ (text.total_pages > PageLimit /\ RLt(text.text_pages_ratio, Div(5, 10)))

needs_ocr_analysis(text, visual, file) ==
  \/ ~text.has_text_layer
  \/ RLt(text.text_pages_ratio, Div(3, 10))
  \/ RLt(visual, Div(2, 100))
  \/ (RLt(Float(SizeLimitMb), file.file_size_mb)
        /\ RLt(text.avg_text_per_page, Float(AvgTextLimit)))
  \/ (text.total_pages > PageLimit /\ RLt(text.text_pages_ratio, Div(5, 10)))

(***************************************************************************)
(* Documents. A descriptor lists, for each library call made on the file,  *)
(* the outcomes the environment may produce.                               *)
(***************************************************************************)
OneMb == BytesPerMb
FiveMb == SizeLimitMb * BytesPerMb
Sizes == {OneMb, FiveMb, FiveMb + 1}

Raised == [raises |-> TRUE, text |-> <<>>]
Got(t) == [raises |-> FALSE, text |-> t]

\* What page.get_text() may do on page i (1-based) of the document.
PageTextChoices(doc, i) ==
  CASE doc.text = "none" -> {Got(BlankText)}
    [] doc.text = "full" -> {Got(LongText)}
    [] doc.text = "bad2" -> IF i = 2 THEN {Raised} ELSE {Got(ShortText)}
    [] OTHER -> {Raised, Got(EmptyText), Got(BlankText), Got(ShortText),
                 Got(LongText)}

\* The image page i (1-based) rasterizes to.
RenderChoices(doc, i) ==
  CASE doc.render \in ImageNames -> {doc.render}
    [] doc.render = "alt" -> IF i % 2 = 1 THEN {"dark"} ELSE {"white"}
    [] doc.render = "la2" -> IF i = 2 THEN {"la"} ELSE {"half"}
    [] OTHER -> ImageNames

MkDoc(st, sz, op, np, tx, rd, cv) ==
  [stat_ok |-> st, sizes |-> sz, open_ok |-> op, npages |-> np,
   text |-> tx, render |-> rd, convert_ok |-> cv]

\* The document of which nothing is fixed.
AnyDoc == MkDoc(BOOLEAN, Sizes, BOOLEAN, 0..MaxPages, "any", "any", BOOLEAN)

\* The documents a folder of the batch specification holds.
Catalogue ==
  { MkDoc({TRUE}, {OneMb}, {FALSE}, {0}, "none", "white", {TRUE}),
    MkDoc({FALSE}, {OneMb}, {TRUE}, {1}, "full", "half", {TRUE}),
    MkDoc({TRUE}, {FiveMb + 1}, {TRUE}, {2}, "none", "dark", {TRUE}),
    MkDoc({TRUE}, {OneMb}, {TRUE}, {2}, "full", "half", {TRUE}),
    MkDoc({TRUE}, {OneMb}, {TRUE}, {2}, "bad2", "half", {TRUE}),
    MkDoc({TRUE}, {FiveMb}, {TRUE}, {1}, "full", "half", {FALSE}),
    MkDoc({TRUE}, {OneMb}, {TRUE}, {2}, "full", "la2", {TRUE}) }

RECURSIVE SeqsUpTo(_, _)
SeqsUpTo(S, n) ==
  IF n = 0 THEN {<<>>}
  ELSE LET shorter == SeqsUpTo(S, n - 1)
       IN  shorter \cup {Append(s, x) : s \in shorter, x \in S}

(***************************************************************************)
(* State.                                                                  *)
(***************************************************************************)
VARIABLES
  module,          \* which source file's functions run
  folder_path,     \* main: folder_path ("unset" before select_folder)
  success,         \* what main returned ("unset" before it returns)
  folder_exists,   \* os.path.exists(folder_path)
  pdf_files,       \* find_pdf_files(folder_path): the documents, in order
  idx,             \* analyze_pdf_folder: the loop's i (0 before the loop)
  results,         \* analyze_pdf_folder: results
  pc,              \* the position of control
  file_metrics,    \* analyze_pdf_ocr_need: file_metrics
  doc_open,        \* analyze_pdf_text_layer: doc is open
  page_count,      \* len(doc): the document's page count
  text_analysis,   \* analyze_pdf_text_layer: results
  page_num,        \* analyze_pdf_text_layer: pages visited so far
  poppler_path,    \* analyze_pdf_ocr_need: "unset", "found" or "None"
  sample_pages,    \* analyze_visual_text_density: sample_pages
  images,          \* analyze_visual_text_density: images (their page numbers)
  densities,       \* analyze_visual_text_density: densities
  rendered,        \* the image each sampled page rasterized to
  visual_density,  \* analyze_pdf_ocr_need: visual_density
  ret,             \* what analyze_pdf_ocr_need returned
  calls,           \* per file, how often analyze_pdf_ocr_need was invoked
  estimator_calls, \* per file, how often the estimator was invoked
  events           \* per file, what the libraries raised

vars == <<module, folder_path, success, folder_exists, pdf_files, idx, results, pc, file_metrics,
          doc_open, page_count, text_analysis, page_num, poppler_path,
          sample_pages, images, densities, rendered, visual_density, ret,
          calls, estimator_calls, events>>

Main == "PDF_Ocr_Analyzer"
Twin == "TextQualityCheck"

NoMetrics == [file_size_mb |-> Float(0), filename |-> 0]

\* The results dict with the ratio starting from 1.0.
NewTextAnalysis_full(n) ==
  [has_text_layer |-> FALSE, total_pages |-> n, pages_with_text |-> 0,
   total_text_length |-> 0, text_pages_ratio |-> Float(1),
   avg_text_per_page |-> Float(0)]

\* The results dict analyze_pdf_text_layer starts from, for n pages.
NewTextAnalysis(n) ==
  [has_text_layer |-> FALSE, total_pages |-> n, pages_with_text |-> 0,
   total_text_length |-> 0, text_pages_ratio |-> Float(0),
   avg_text_per_page |-> Float(0)]

NoneResult == [kind |-> "None"]

\* pdf_path of the i-th file and os.path.basename of it.
PathOf(i) == <<"folder", i>>
Basename(path) == path[2]

Doc == pdf_files[idx]

Note(e) == events' = [events EXCEPT ![idx] = @ \cup {e}]

\* An exception raised inside the try block of analyze_pdf_ocr_need: control
\* passes to its except clause, whatever the callee held left as it is.
Caught ==
  /\ pc' = "except"
  /\ UNCHANGED ret

InitLocals ==
  /\ file_metrics = NoMetrics
  /\ doc_open = FALSE
  /\ page_count = 0
  /\ text_analysis = NewTextAnalysis(0)
  /\ page_num = 0
  /\ poppler_path = "unset"
  /\ sample_pages = DefaultSamplePages
  /\ images = <<>>
  /\ densities = <<>>
  /\ rendered = <<>>
  /\ visual_density = Float(0)
  /\ ret = NoneResult

\* The state in which control is at position at, with folder_path as given.
InitAt(files, at, path) ==
  /\ module = Main
  /\ folder_path = path
  /\ success = "unset"
  /\ folder_exists \in BOOLEAN
  /\ pdf_files = files
  /\ idx = 0
  /\ results = <<>>
  /\ pc = at
  /\ calls = [i \in 1..Len(files) |-> 0]
  /\ estimator_calls = [i \in 1..Len(files) |-> 0]
  /\ events = [i \in 1..Len(files) |-> {}]
  /\ InitLocals

\* The entry of analyze_pdf_folder(folder_path).
InitFolder(files) == InitAt(files, "start", "folder")

\* The batch: a folder of up to MaxFiles catalogue documents.
Init == \E files \in SeqsUpTo(Catalogue, MaxFiles) : InitFolder(files)

\* One document of which nothing is fixed, in an existing folder.
InitDoc == InitFolder(<<AnyDoc>>) /\ folder_exists = TRUE

(***************************************************************************)
(* analyze_pdf_folder                                                      *)
(***************************************************************************)
FolderBegin ==
  /\ pc = "start"
  /\ pc' = IF folder_exists /\ pdf_files # <<>> THEN "call" ELSE "end"
  /\ idx' = IF folder_exists /\ pdf_files # <<>> THEN 1 ELSE idx
  /\ results' = <<>>
  /\ UNCHANGED <<module, folder_path, success, folder_exists, pdf_files, file_metrics, doc_open,
                 page_count, text_analysis, page_num, poppler_path,
                 sample_pages, images, densities, rendered, visual_density, ret, calls,
                 estimator_calls, events>>

\* The loop body up to the call of analyze_pdf_ocr_need(pdf_path).
FolderCall ==
  /\ pc = "call"
  /\ calls' = [calls EXCEPT ![idx] = @ + 1]
  /\ file_metrics' = NoMetrics
  /\ page_count' = 0
  /\ text_analysis' = NewTextAnalysis(0)
  /\ page_num' = 0
  /\ poppler_path' = "unset"
  /\ sample_pages' = DefaultSamplePages
  /\ images' = <<>>
  /\ densities' = <<>>
  /\ rendered' = <<>>
  /\ visual_density' = Float(0)
  /\ ret' = NoneResult
  /\ pc' = "metrics"
  /\ UNCHANGED <<module, folder_path, success, folder_exists, pdf_files, idx, results, doc_open,
                 estimator_calls, events>>

\* The record the except clause of the loop appends.
ErrorDefault(path, size, msg) ==
  [kind |-> "dict", filename |-> Basename(path), has_text_layer |-> FALSE,
   text_pages_ratio |-> Float(0), avg_text_density |-> Float(0),
   ocr_required |-> TRUE, file_size_mb |-> Div(size, BytesPerMb),
   total_pages |-> 0, error |-> msg]

\* A dict is true when it is not empty; None is false.
Truthy(r) == r.kind = "dict"

\* The loop leaving at the first document that produced no result.
FolderCollect_abort ==
  /\ pc = "collect"
  /\ results' = IF Truthy(ret) THEN Append(results, ret) ELSE results
  /\ idx' = IF idx < Len(pdf_files) /\ Truthy(ret) THEN idx + 1 ELSE idx
  /\ pc' = IF idx < Len(pdf_files) /\ Truthy(ret) THEN "call" ELSE "end"
  /\ UNCHANGED <<module, folder_path, success, folder_exists, pdf_files, file_metrics, doc_open,
                 page_count, text_analysis, page_num, poppler_path,
                 sample_pages, images, densities, rendered, visual_density,
                 ret, calls, estimator_calls, events>>

\* The rest of the loop body, and the loop's step.
FolderCollect ==
  /\ pc = "collect"
  /\ results' =
       IF ret.kind = "raise"
       THEN Append(results, ErrorDefault(PathOf(idx), ret.size, ret.error))
       ELSE IF Truthy(ret) THEN Append(results, ret) ELSE results
  /\ idx' = IF idx < Len(pdf_files) THEN idx + 1 ELSE idx
  /\ pc' = IF idx < Len(pdf_files) THEN "call" ELSE "end"
  /\ UNCHANGED <<module, folder_path, success, folder_exists, pdf_files, file_metrics, doc_open,
                 page_count, text_analysis, page_num, poppler_path,
                 sample_pages, images, densities, rendered, visual_density, ret, calls,
                 estimator_calls, events>>

(***************************************************************************)
(* analyze_pdf_ocr_need, step 1: get_file_metrics                          *)
(***************************************************************************)
get_file_metrics ==
  /\ pc = "metrics"
  /\ \E ok \in Doc.stat_ok, size \in Doc.sizes :
       IF ok
       THEN /\ file_metrics' = [file_size_mb |-> Div(size, BytesPerMb),
                                filename |-> Basename(PathOf(idx))]
            /\ pc' = "open"
            /\ UNCHANGED <<ret, events>>
       ELSE /\ Note("stat_raised")
            /\ Caught
            /\ UNCHANGED file_metrics
  /\ UNCHANGED <<module, folder_path, success, folder_exists, pdf_files, idx, results, doc_open,
                 page_count, text_analysis, page_num, poppler_path,
                 sample_pages, images, densities, rendered, visual_density, calls,
                 estimator_calls>>

(***************************************************************************)
(* analyze_pdf_text_layer                                                  *)
(***************************************************************************)
TextOpen ==
  /\ pc = "open"
  /\ \E ok \in Doc.open_ok, n \in Doc.npages :
       IF ok
       THEN /\ doc_open' = TRUE
            /\ page_count' = n
            /\ text_analysis' = NewTextAnalysis(n)
            /\ page_num' = 0
            /\ pc' = "page"
            /\ UNCHANGED <<ret, events>>
       ELSE /\ Note("open_raised")
            /\ Caught
            /\ UNCHANGED <<doc_open, page_count, text_analysis, page_num>>
  /\ UNCHANGED <<module, folder_path, success, folder_exists, pdf_files, idx, results, file_metrics,
                 poppler_path, sample_pages, images, densities, rendered, visual_density,
                 calls, estimator_calls>>

\* The loop body marking the text layer before it tests the page's text.
CountPage_mark(r, text) ==
  IF Strip(text) # <<>>
  THEN [r EXCEPT !.has_text_layer = TRUE,
                 !.pages_with_text = @ + 1,
                 !.total_text_length = @ + Len(Strip(text))]
  ELSE [r EXCEPT !.has_text_layer = TRUE]

\* The loop body for one page, given the text page.get_text() returned.
CountPage(r, text) ==
  IF Strip(text) # <<>>
  THEN [r EXCEPT !.has_text_layer = TRUE,
                 !.pages_with_text = @ + 1,
                 !.total_text_length = @ + Len(Strip(text))]
  ELSE r

TextPage ==
  /\ pc = "page"
  /\ page_num < text_analysis.total_pages
  /\ \E got \in PageTextChoices(Doc, page_num + 1) :
       IF got.raises
       THEN /\ Note("page_raised")
            /\ Caught
            /\ UNCHANGED <<text_analysis, page_num>>
       ELSE /\ text_analysis' = CountPage(text_analysis, got.text)
            /\ page_num' = page_num + 1
            /\ UNCHANGED <<ret, events, pc>>
  /\ UNCHANGED <<module, folder_path, success, folder_exists, pdf_files, idx, results, file_metrics,
                 doc_open, page_count, poppler_path, sample_pages, images,
                 densities, rendered, visual_density, calls, estimator_calls>>

\* The derived metrics computed after the loop.
Derive(r) ==
  IF r.total_pages > 0
  THEN [r EXCEPT !.text_pages_ratio = Div(r.pages_with_text, r.total_pages),
                 !.avg_text_per_page =
                    Div(r.total_text_length, IntMax(r.pages_with_text, 1))]
  ELSE r

TextFinish ==
  /\ pc = "page"
  /\ page_num = text_analysis.total_pages
  /\ text_analysis' = Derive(text_analysis)
  /\ doc_open' = FALSE
  /\ pc' = "poppler"
  /\ UNCHANGED <<module, folder_path, success, folder_exists, pdf_files, idx, results, file_metrics,
                 page_count, page_num, poppler_path, sample_pages, images,
                 densities, rendered, visual_density, ret, calls, estimator_calls,
                 events>>

(***************************************************************************)
(* analyze_pdf_ocr_need, step 3: setup_poppler and the call of the         *)
(* estimator with its default sample size.                                 *)
(***************************************************************************)
setup_poppler ==
  /\ pc = "poppler"
  /\ \E found \in BOOLEAN :
       IF found
       THEN /\ poppler_path' = "found"
            /\ estimator_calls' = [estimator_calls EXCEPT ![idx] = @ + 1]
            /\ sample_pages' = DefaultSamplePages
            /\ pc' = "convert"
            /\ UNCHANGED visual_density
       ELSE /\ poppler_path' = "None"
            /\ visual_density' = Float(0)
            /\ pc' = "decide"
            /\ UNCHANGED <<estimator_calls, sample_pages>>
  /\ UNCHANGED <<module, folder_path, success, folder_exists, pdf_files, idx, results, file_metrics,
                 doc_open, page_count, text_analysis, page_num, images,
                 densities, rendered, ret, calls, events>>

(***************************************************************************)
(* analyze_visual_text_density                                             *)
(***************************************************************************)
\* pdf2image's convert_from_path(path, first_page, last_page) on a document
\* of n pages: the pages first_page .. min(last_page, n), none if that is empty.
convert_from_path(n, first_page, last_page) ==
  LET last == IntMin(last_page, n)
  IN  IF first_page > last THEN <<>>
      ELSE [i \in 1..(last - first_page + 1) |-> first_page + i - 1]

\* The last_page the estimator asks for.
LastPage(n) == IntMin(n, SampleCap)

VisualConvert ==
  /\ pc = "convert"
  /\ module = Main
  /\ \E ok \in Doc.convert_ok :
       IF ok
       THEN LET imgs == convert_from_path(page_count, 1, LastPage(sample_pages))
            IN  /\ images' = imgs
                /\ densities' = <<>>
                /\ rendered' = <<>>
                /\ pc' = IF imgs = <<>> THEN "decide" ELSE "density"
                /\ visual_density' = IF imgs = <<>> THEN Float(0) ELSE visual_density
                /\ UNCHANGED events
       ELSE /\ Note("convert_raised")
            /\ visual_density' = Float(0)
            /\ pc' = "decide"
            /\ UNCHANGED <<images, densities, rendered>>
  /\ UNCHANGED <<module, folder_path, success, folder_exists, pdf_files, idx, results, file_metrics,
                 doc_open, page_count, text_analysis, page_num, poppler_path,
                 sample_pages, ret, calls, estimator_calls>>

\* The loop body: the density of the next image is appended.
VisualPage ==
  /\ pc = "density"
  /\ Len(densities) < Len(images)
  /\ \E name \in RenderChoices(Doc, images[Len(densities) + 1]) :
       /\ densities' = Append(densities, calculate_text_density(ImageOf(name)))
       /\ rendered' = Append(rendered, name)
       /\ events' = IF DensityRaises(ImageOf(name))
                    THEN [events EXCEPT ![idx] = @ \cup {"density_raised"}]
                    ELSE events
  /\ UNCHANGED <<module, folder_path, success, folder_exists, pdf_files, idx, results, pc,
                 file_metrics, doc_open, page_count, text_analysis, page_num,
                 poppler_path, sample_pages, images, visual_density, ret, calls,
                 estimator_calls>>

\* avg_density = np.mean(densities) if densities else 0.0
AvgDensity(ds) == IF ds # <<>> THEN NpMean(ds) ELSE Float(0)

VisualMean ==
  /\ pc = "density"
  /\ Len(densities) = Len(images)
  /\ visual_density' = AvgDensity(densities)
  /\ pc' = "decide"
  /\ UNCHANGED <<module, folder_path, success, folder_exists, pdf_files, idx, results, file_metrics,
                 doc_open, page_count, text_analysis, page_num, poppler_path,
                 sample_pages, images, densities, rendered, ret, calls, estimator_calls,
                 events>>

\* TextQualityCheck.py: convert_from_path is called with first_n=, a keyword
\* pdf2image does not have; the TypeError is caught and 0.0 returned.
TwinVisualConvert ==
  /\ pc = "convert"
  /\ module = Twin
  /\ Note("call_raised")
  /\ visual_density' = Float(0)
  /\ pc' = "decide"
  /\ UNCHANGED <<module, folder_path, success, folder_exists, pdf_files, idx, results, file_metrics,
                 doc_open, page_count, text_analysis, page_num, poppler_path,
                 sample_pages, images, densities, rendered, ret, calls, estimator_calls>>

(***************************************************************************)
(* analyze_pdf_ocr_need, steps 4 and 5                                     *)
(***************************************************************************)
MkResult(fm, ta, vd) ==
  [kind |-> "dict", filename |-> fm.filename,
   has_text_layer |-> ta.has_text_layer,
   text_pages_ratio |-> ta.text_pages_ratio, avg_text_density |-> vd,
   ocr_required |-> needs_ocr_analysis(ta, vd, fm),
   file_size_mb |-> fm.file_size_mb, total_pages |-> ta.total_pages]

Decide ==
  /\ pc = "decide"
  /\ ret' = MkResult(file_metrics, text_analysis, visual_density)
  /\ pc' = "collect"
  /\ UNCHANGED <<module, folder_path, success, folder_exists, pdf_files, idx, results, file_metrics,
                 doc_open, page_count, text_analysis, page_num, poppler_path,
                 sample_pages, images, densities, rendered, visual_density, calls,
                 estimator_calls, events>>

\* The except clause of analyze_pdf_ocr_need: the error is printed and None
\* returned. A document the analyzer left open is unreferenced from here on:
\* a reference-counting runtime closes it now, another one later or never.
OrchestratorExcept ==
  /\ pc = "except"
  /\ ret' = NoneResult
  /\ pc' = "collect"
  /\ \E released \in BOOLEAN : doc_open' = (doc_open /\ ~released)
  /\ UNCHANGED <<module, folder_path, success, folder_exists, pdf_files, idx, results, file_metrics,
                 page_count, text_analysis, page_num, poppler_path,
                 sample_pages, images, densities, rendered, visual_density,
                 calls, estimator_calls, events>>

(***************************************************************************)
(* main                                                                    *)
(***************************************************************************)
\* select_folder() returns the folder chosen, or "" when none was.
MainSelect ==
  /\ pc = "main"
  /\ \E chosen \in {"", "folder"} :
       /\ folder_path' = chosen
       /\ success' = IF chosen = "" THEN "False" ELSE success
       /\ pc' = IF chosen = "" THEN "exit" ELSE "start"
  /\ UNCHANGED <<module, folder_exists, pdf_files, idx, results, file_metrics,
                 doc_open, page_count, text_analysis, page_num, poppler_path,
                 sample_pages, images, densities, rendered, visual_density,
                 ret, calls, estimator_calls, events>>

\* main returning whether the batch produced any record.
MainFinish_results ==
  /\ pc = "end"
  /\ success' = IF results # <<>> THEN "True" ELSE "False"
  /\ pc' = "exit"
  /\ UNCHANGED <<module, folder_path, folder_exists, pdf_files, idx, results,
                 file_metrics, doc_open, page_count, text_analysis, page_num,
                 poppler_path, sample_pages, images, densities, rendered,
                 visual_density, ret, calls, estimator_calls, events>>

\* What follows analyze_pdf_folder in main: the report, the CSV file and the
\* message box if there are results, a warning if there are none; return True.
MainFinish ==
  /\ pc = "end"
  /\ success' = "True"
  /\ pc' = "exit"
  /\ UNCHANGED <<module, folder_path, folder_exists, pdf_files, idx, results,
                 file_metrics, doc_open, page_count, text_analysis, page_num,
                 poppler_path, sample_pages, images, densities, rendered,
                 visual_density, ret, calls, estimator_calls, events>>

(***************************************************************************)
(* Specifications.                                                         *)
(***************************************************************************)
Next ==
  \/ FolderBegin
  \/ FolderCall
  \/ get_file_metrics
  \/ TextOpen
  \/ TextPage
  \/ TextFinish
  \/ setup_poppler
  \/ VisualConvert
  \/ VisualPage
  \/ VisualMean
  \/ Decide
  \/ OrchestratorExcept
  \/ FolderCollect

\* The batch over a folder of catalogue documents.
Spec == Init /\ [][Next]_vars

\* The batch over one document of which nothing is fixed.
SpecDoc == InitDoc /\ [][Next]_vars

\* The whole program: main over a folder of catalogue documents.
InitMain ==
  \E files \in SeqsUpTo(Catalogue, MaxFiles) : InitAt(files, "main", "unset")

NextMain ==
  \/ MainSelect
  \/ Next
  \/ MainFinish

SpecMain == InitMain /\ [][NextMain]_vars

\* One document that opens, of up to MaxDocPages pages of any text, so that
\* the analyzer's records reach the page limit of the decision.
LongDoc ==
  MkDoc({TRUE}, Sizes, {TRUE}, 0..MaxDocPages, "any", "half", BOOLEAN)

InitPages == InitFolder(<<LongDoc>>) /\ folder_exists = TRUE

SpecPages == InitPages /\ [][Next]_vars

(***************************************************************************)
(* The two modules side by side: analyze_pdf_ocr_need of PDF_Ocr_Analyzer  *)
(* and then analyze_pdf_ocr_need of TextQualityCheck, called on the same   *)
(* catalogue document; results holds what each returned, None included.    *)
(***************************************************************************)
InitPair ==
  /\ \E d \in Catalogue : InitAt(<<d, d>>, "call", "folder")
  /\ folder_exists = TRUE

\* The call of analyze_pdf_ocr_need(pdf_path), of the first module and then
\* of the second.
PairCall ==
  /\ pc = "call"
  /\ idx' = idx + 1
  /\ module' = IF idx = 0 THEN Main ELSE Twin
  /\ calls' = [calls EXCEPT ![idx + 1] = @ + 1]
  /\ file_metrics' = NoMetrics
  /\ page_count' = 0
  /\ text_analysis' = NewTextAnalysis(0)
  /\ page_num' = 0
  /\ poppler_path' = "unset"
  /\ sample_pages' = DefaultSamplePages
  /\ images' = <<>>
  /\ densities' = <<>>
  /\ rendered' = <<>>
  /\ visual_density' = Float(0)
  /\ ret' = NoneResult
  /\ pc' = "metrics"
  /\ UNCHANGED <<folder_path, success, folder_exists, pdf_files, results,
                 doc_open, estimator_calls, events>>

\* The caller keeping what the call returned.
PairCollect ==
  /\ pc = "collect"
  /\ results' = Append(results, ret)
  /\ pc' = IF idx < Len(pdf_files) THEN "call" ELSE "end"
  /\ UNCHANGED <<module, folder_path, success, folder_exists, pdf_files, idx,
                 file_metrics, doc_open, page_count, text_analysis, page_num,
                 poppler_path, sample_pages, images, densities, rendered,
                 visual_density, ret, calls, estimator_calls, events>>

NextPair ==
  \/ PairCall
  \/ get_file_metrics
  \/ TextOpen
  \/ TextPage
  \/ TextFinish
  \/ setup_poppler
  \/ VisualConvert
  \/ TwinVisualConvert
  \/ VisualPage
  \/ VisualMean
  \/ Decide
  \/ OrchestratorExcept
  \/ PairCollect

SpecPair == InitPair /\ [][NextPair]_vars

(***************************************************************************)
(* The decision engine on its own: every combination of inputs around the  *)
(* thresholds, whether or not the analyzers can produce it.                *)
(***************************************************************************)
RatioGrid == {Float(0), Div(29, 100), Div(3, 10), Div(31, 100), Div(49, 100),
              Div(1, 2), Div(51, 100), Float(1)}
DensityGrid == {Float(0), Div(1, 100), Div(1, 50), Div(3, 100), Float(1)}
AvgGrid == {Float(0), Div(99, 2), Float(AvgTextLimit), Div(101, 2)}
PagesGrid == {0, PageLimit - 1, PageLimit, PageLimit + 1}

InitRules ==
  /\ module \in {Main, Twin}
  /\ folder_path = "folder"
  /\ success = "unset"
  /\ folder_exists = TRUE
  /\ pdf_files = <<AnyDoc>>
  /\ idx = 1
  /\ results = <<>>
  /\ pc = "decide"
  /\ calls = <<1>>
  /\ estimator_calls = <<0>>
  /\ events = <<{}>>
  /\ file_metrics \in {[file_size_mb |-> Div(size, BytesPerMb), filename |-> 1] :
                         size \in Sizes}
  /\ doc_open = FALSE
  /\ page_count = 0
  /\ \E h \in BOOLEAN, n \in PagesGrid, r \in RatioGrid, a \in AvgGrid :
       text_analysis = [has_text_layer |-> h, total_pages |-> n,
                        pages_with_text |-> 0, total_text_length |-> 0,
                        text_pages_ratio |-> r, avg_text_per_page |-> a]
  /\ page_num = 0
  /\ poppler_path = "unset"
  /\ sample_pages = DefaultSamplePages
  /\ images = <<>>
  /\ densities = <<>>
  /\ rendered = <<>>
  /\ visual_density \in DensityGrid
  /\ ret = NoneResult

NextRules == Decide

SpecRules == InitRules /\ [][NextRules]_vars

(***************************************************************************)
(* The estimator on its own: any sample size, documents of up to           *)
(* MaxDocPages pages, both source files.                                   *)
(***************************************************************************)
Renderings == {"half", "sparse", "alt", "la2"}

InitDensity ==
  /\ module \in {Main, Twin}
  /\ folder_path = "folder"
  /\ success = "unset"
  /\ folder_exists = TRUE
  /\ page_count \in 0..MaxDocPages
  /\ \E rd \in Renderings :
       pdf_files = <<MkDoc({TRUE}, {OneMb}, {TRUE}, {page_count}, "full", rd,
                           BOOLEAN)>>
  /\ idx = 1
  /\ results = <<>>
  /\ pc = "convert"
  /\ calls = <<1>>
  /\ estimator_calls = <<1>>
  /\ events = <<{}>>
  /\ file_metrics = NoMetrics
  /\ doc_open = FALSE
  /\ text_analysis = NewTextAnalysis(page_count)
  /\ page_num = 0
  /\ poppler_path = "found"
  /\ sample_pages \in (-1)..MaxSample
  /\ images = <<>>
  /\ densities = <<>>
  /\ rendered = <<>>
  /\ visual_density = Float(0)
  /\ ret = NoneResult

NextDensity ==
  \/ VisualConvert
  \/ TwinVisualConvert
  \/ VisualPage
  \/ VisualMean

SpecDensity == InitDensity /\ [][NextDensity]_vars

(***************************************************************************)
(* Properties.                                                             *)
(***************************************************************************)
HasEvent(i, e) == e \in events[i]

\* The five rules, written out on the inputs of the decision.
FiveRules ==
  LET t == text_analysis
      r == t.text_pages_ratio
      d == visual_density
      z == file_metrics.file_size_mb
      a == t.avg_text_per_page
  IN  \/ t.has_text_layer = FALSE
      \/ 10 * r[1] < 3 * r[2]
      \/ 50 * d[1] < d[2]
      \/ (z[1] > 5 * z[2] /\ a[1] < 50 * a[2])
      \/ (t.total_pages > 10 /\ 2 * r[1] < r[2])

\* C1: needs_ocr_analysis returns True exactly when one of the five rules
\* holds, and inputs that sit on every threshold at once (ratio 0.30 with 10
\* pages, or ratio 0.50 with 11 pages; density 0.02; 50 characters a page or
\* 5 MB) give False.
C1_FiveRulesExactly ==
  pc = "collect" =>
    /\ ret.ocr_required <=> FiveRules
    /\ (/\ text_analysis.has_text_layer
        /\ visual_density = <<1, 50>>
        /\ \/ /\ text_analysis.text_pages_ratio = <<3, 10>>
              /\ text_analysis.total_pages = 10
              /\ file_metrics.file_size_mb = <<5, 1>>
           \/ /\ text_analysis.text_pages_ratio = <<1, 2>>
              /\ text_analysis.total_pages = 11
              /\ text_analysis.avg_text_per_page = <<50, 1>>)
       => ~ret.ocr_required

\* A decision of False taken with ratio 0.50, 11 pages, density 0.02, 50
\* characters a page and a file over 5 MB.
C1_Witness ==
  /\ pc = "collect"
  /\ ~ret.ocr_required
  /\ text_analysis.text_pages_ratio = <<1, 2>>
  /\ text_analysis.total_pages = 11
  /\ visual_density = <<1, 50>>
  /\ text_analysis.avg_text_per_page = <<50, 1>>
  /\ file_metrics.file_size_mb = Div(FiveMb + 1, BytesPerMb)

HasError(r) == "error" \in DOMAIN r /\ r.error # ""

\* C2: once the batch is over, every file whose open step raised has a record
\* in the result list with ocr_required = True, total_pages = 0 and a
\* non-empty error.
C2_OpenFailureRecorded ==
  pc = "end" =>
    \A i \in 1..Len(pdf_files) :
      HasEvent(i, "open_raised") =>
        \E k \in 1..Len(results) :
          /\ results[k].filename = Basename(PathOf(i))
          /\ results[k].ocr_required
          /\ results[k].total_pages = 0
          /\ HasError(results[k])

\* A finished batch in which some file failed to open.
C2_Witness ==
  /\ pc = "end"
  /\ \E i \in 1..Len(pdf_files) : HasEvent(i, "open_raised")

\* C3: analyze_pdf_ocr_need hands back None or a record, never an exception;
\* no file is handed to it twice, every file before the loop's position has
\* been handed to it once, and at the end of the batch over an existing
\* folder so has every file found.
C3_EveryFileAttemptedOnce ==
  /\ pc = "collect" => ret.kind \in {"None", "dict"}
  /\ \A i \in 1..Len(pdf_files) :
       /\ calls[i] <= 1
       /\ (i < idx => calls[i] = 1)
       /\ (pc = "end" /\ folder_exists => calls[i] = 1)

\* A finished batch in which a file that produced no result is followed by a
\* file that was analyzed.
C3_Witness ==
  /\ pc = "end"
  /\ \E i \in 1..(Len(pdf_files) - 1) :
       /\ events[i] # {}
       /\ calls[i + 1] = 1

\* save_to_csv: nothing is written for an empty list; otherwise the header
\* and one row per record, of the four fields, a missing one left blank.
Fieldnames == <<"filename", "has_text_layer", "avg_text_density", "ocr_required">>

save_to_csv(rs) ==
  IF rs = <<>> THEN <<>>
  ELSE <<Fieldnames>> \o
       [k \in 1..Len(rs) |->
          [f \in 1..Len(Fieldnames) |->
             IF Fieldnames[f] \in DOMAIN rs[k]
             THEN <<Fieldnames[f], rs[k][Fieldnames[f]]>>
             ELSE <<Fieldnames[f], "">>]]

\* C4: after the batch over an existing folder of n files the result list
\* holds n records, and the CSV file the header and n rows.
C4_OneRowPerFile ==
  pc = "end" /\ folder_exists =>
    /\ Len(results) = Len(pdf_files)
    /\ (pdf_files # <<>> => Len(save_to_csv(results)) = Len(pdf_files) + 1)

\* A finished batch in which some file produced no result.
C4_Witness ==
  /\ pc = "end"
  /\ \E i \in 1..Len(pdf_files) : events[i] # {}

\* C5: when setup_poppler returned None the estimator has not been invoked
\* for the document, the density is 0.0, and the orchestrator returns a
\* record whose avg_text_density is 0.0 and whose ocr_required is True.
C5_NoBackendForcesOcr ==
  poppler_path = "None" =>
    /\ estimator_calls[idx] = 0
    /\ visual_density = <<0, 1>>
    /\ (pc # "decide" =>
          /\ ret.kind = "dict"
          /\ ret.avg_text_density = <<0, 1>>
          /\ ret.ocr_required)

\* A record returned without a backend for a 1 MB document whose pages all
\* carry 50 characters of text: only rule 3 holds.
C5_Witness ==
  /\ pc = "collect"
  /\ poppler_path = "None"
  /\ ret.kind = "dict"
  /\ ret.ocr_required
  /\ ret.has_text_layer
  /\ ret.text_pages_ratio = <<1, 1>>
  /\ text_analysis.avg_text_per_page = <<50, 1>>
  /\ ret.file_size_mb = <<1, 1>>
  /\ ret.total_pages > 0

\* v is the arithmetic mean of the non-empty list ds.
IsMeanOf(v, ds) ==
  LET t == RSum(ds) IN v[1] * t[2] * Len(ds) = t[1] * v[2]

InUnit(q) == q[2] > 0 /\ 0 <= q[1] /\ q[1] <= q[2]

\* C6 as stated: once the estimator has returned after convert_from_path
\* raised, or after the density computation of a sampled page raised, the
\* estimate is 0.0, and the orchestrator goes on to return a record.
C6_AnyFailureZeroesEstimate ==
  (/\ pc \in {"decide", "collect"}
   /\ poppler_path = "found"
   /\ (HasEvent(idx, "convert_raised") \/ HasEvent(idx, "density_raised")))
  => /\ visual_density = <<0, 1>>
     /\ (pc = "collect" => ret.kind = "dict")

\* C6, amended: a page whose density computation raised counts 0.0 in the
\* list of densities; once the estimator has returned, the estimate is 0.0
\* if convert_from_path raised and otherwise the mean of the sampled pages'
\* densities, the failed pages' 0.0 among them; and the orchestrator goes on
\* to return a record that carries the estimate.
C6_FailureDegrades ==
  /\ \A k \in 1..Len(densities) :
       rendered[k] = "la" => densities[k] = <<0, 1>>
  /\ (pc \in {"decide", "collect"} /\ poppler_path = "found") =>
       /\ (HasEvent(idx, "density_raised") <=>
             \E k \in 1..Len(rendered) : rendered[k] = "la")
       /\ (HasEvent(idx, "convert_raised") => visual_density = <<0, 1>>)
       /\ (~HasEvent(idx, "convert_raised") /\ densities # <<>>
             => IsMeanOf(visual_density, densities))
       /\ (pc = "collect" =>
             /\ ret.kind = "dict"
             /\ ret.avg_text_density = visual_density)

\* A record returned with a density other than 0.0 although the density
\* computation of a sampled page raised.
C6_Witness ==
  /\ pc = "collect"
  /\ HasEvent(idx, "density_raised")
  /\ ret.kind = "dict"
  /\ ret.avg_text_density # <<0, 1>>

\* C7: when text extraction raised on a page, analyze_pdf_text_layer still
\* visits every page and the document gets its record.
C7_PageFailureTolerated ==
  (pc = "collect" /\ HasEvent(idx, "page_raised")) =>
    /\ page_num = text_analysis.total_pages
    /\ ret.kind = "dict"

\* Text extraction raised on a page that is not the document's last.
C7_Witness ==
  /\ pc = "collect"
  /\ HasEvent(idx, "page_raised")
  /\ page_num + 1 < text_analysis.total_pages

\* The number of pages the estimator is to sample.
SampleCount == IntMax(0, IntMin(IntMin(sample_pages, page_count), 10))

\* The estimator sampled the first SampleCount pages and averaged them.
SampledFirstPages ==
  /\ images = [i \in 1..SampleCount |-> i]
  /\ Len(densities) = SampleCount
  /\ Len(images) <= 10
  /\ (SampleCount = 0 => visual_density = <<0, 1>>)
  /\ (SampleCount > 0 => IsMeanOf(visual_density, densities))

\* C8: when the estimator has returned, rasterization itself not having
\* failed, it has rasterized and averaged exactly the first
\* min(N, total_pages, 10) pages, and returned 0.0 if that number is zero.
C8_SamplesFirstPages ==
  (pc = "decide" /\ ~HasEvent(idx, "convert_raised")) => SampledFirstPages

\* The same of the estimator of PDF_Ocr_Analyzer.py alone.
C8_MainSamplesFirstPages ==
  (pc = "decide" /\ ~HasEvent(idx, "convert_raised") /\ module = Main)
    => SampledFirstPages

\* The estimator of TextQualityCheck.py has returned for a document with
\* pages and a positive sample size.
C8_Witness ==
  /\ pc = "decide"
  /\ module = Twin
  /\ page_count > SampleCap
  /\ sample_pages > SampleCap

\* C9: at every point of the page loop and in the record returned,
\* 0 <= pages_with_text <= pages visited <= total_pages, text_pages_ratio
\* lies in [0, 1], and has_text_layer = (pages_with_text > 0); in the record
\* returned for a document with pages the ratio is
\* pages_with_text / total_pages.
C9_TextLayerInvariants ==
  LET t == text_analysis
  IN  /\ 0 <= t.pages_with_text
      /\ t.pages_with_text <= page_num
      /\ page_num <= t.total_pages
      /\ t.pages_with_text <= t.total_pages
      /\ InUnit(t.text_pages_ratio)
      /\ (t.has_text_layer <=> t.pages_with_text > 0)
      /\ (pc \in {"poppler", "convert", "density", "decide"}
            /\ t.total_pages > 0
            => t.text_pages_ratio[1] * t.total_pages
                 = t.pages_with_text * t.text_pages_ratio[2])

\* A record returned for a document of which some pages carry text and some
\* do not.
C9_Witness ==
  /\ pc = "poppler"
  /\ 0 < text_analysis.pages_with_text
  /\ text_analysis.pages_with_text < text_analysis.total_pages
  /\ text_analysis.text_pages_ratio[1] < text_analysis.text_pages_ratio[2]
  /\ 0 < text_analysis.text_pages_ratio[1]

\* Foreground pixels over all pixels of each image of the model.
ExpectedDensity(name) ==
  CASE name = "white" -> <<0, 1>>
    [] name = "half" -> <<1, 2>>
    [] name = "dark" -> <<1, 1>>
    [] name = "sparse" -> <<1, 50>>
    [] OTHER -> <<0, 1>>

\* C10: every per-page density is the image's foreground share, within
\* [0, 1]; the estimate lies in [0, 1] at every point, is the mean of the
\* per-page values when pages were averaged, and is what every record
\* carries as avg_text_density.
C10_DensityInUnitInterval ==
  /\ InUnit(visual_density)
  /\ \A k \in 1..Len(densities) :
       /\ densities[k] = ExpectedDensity(rendered[k])
       /\ InUnit(densities[k])
  /\ (pc \in {"decide", "collect"} /\ densities # <<>>
        => IsMeanOf(visual_density, densities))
  /\ (pc = "collect" /\ ret.kind = "dict"
        => ret.avg_text_density = visual_density)
  /\ \A k \in 1..Len(results) : InUnit(results[k].avg_text_density)

\* A record whose density, strictly between 0 and 1, averages several
\* pages, one of them with 1 foreground pixel in 50.
C10_Witness ==
  /\ pc = "end"
  /\ Len(results) = 1
  /\ Len(densities) >= 2
  /\ \E k \in 1..Len(rendered) : rendered[k] = "sparse"
  /\ 0 < results[1].avg_text_density[1]
  /\ results[1].avg_text_density[1] < results[1].avg_text_density[2]

\* C11: once main has returned, it returned False if no folder was selected
\* and True if the folder selected exists, whatever became of its
\* documents; and while no folder is selected or the folder does not exist,
\* no document has been handed to the analysis and there is no record.
C11_MainReturn ==
  /\ (pc = "exit" =>
        /\ (folder_path = "" => success = "False")
        /\ (folder_path # "" /\ folder_exists => success = "True"))
  /\ (pc # "exit" => success = "unset")
  /\ (folder_path \in {"unset", ""} \/ ~folder_exists =>
        /\ \A i \in 1..Len(pdf_files) : calls[i] = 0
        /\ results = <<>>
        /\ pc \in {"main", "start", "end", "exit"})

\* main has returned True for a folder all of whose documents, at least one,
\* failed.
C11_Witness ==
  /\ pc = "exit"
  /\ success = "True"
  /\ pdf_files # <<>>
  /\ results = <<>>
  /\ \A i \in 1..Len(pdf_files) : calls[i] = 1 /\ events[i] # {}

\* C12: whenever analyze_pdf_text_layer is not running, that is, before it
\* opened the document and after control left it by return or by exception,
\* the document handle is closed.
C12_HandleClosedOnExit == pc # "page" => ~doc_open

\* A page read has raised and control is in the caller's except clause while
\* the document is still open.
C12_Witness ==
  /\ pc = "except"
  /\ HasEvent(idx, "page_raised")
  /\ doc_open

\* Rules 2 to 5 of the decision, written out on a returned record and the
\* text analysis it was built from.
RulesTwoToFive ==
  LET r == ret.text_pages_ratio
      d == ret.avg_text_density
      z == ret.file_size_mb
      a == text_analysis.avg_text_per_page
  IN  \/ 10 * r[1] < 3 * r[2]
      \/ 50 * d[1] < d[2]
      \/ (z[1] > 5 * z[2] /\ a[1] < 50 * a[2])
      \/ (ret.total_pages > 10 /\ 2 * r[1] < r[2])

\* C13: a text analysis without a text layer has text_pages_ratio 0.0, during
\* the page loop and after it; on every record the orchestrator returns the
\* same holds, ocr_required equals the OR of rules 2 to 5, and a record of
\* zero pages has ocr_required True.
C13_RuleOneImpliesRuleTwo ==
  /\ (~text_analysis.has_text_layer =>
        text_analysis.text_pages_ratio = <<0, 1>>)
  /\ (pc = "collect" /\ ret.kind = "dict" =>
        /\ (~ret.has_text_layer => ret.text_pages_ratio = <<0, 1>>)
        /\ (ret.ocr_required <=> RulesTwoToFive)
        /\ (ret.total_pages = 0 => ret.ocr_required))

\* A record of MaxDocPages blank pages returned with density 0.5 for a file
\* of 1 MB: rule 1 holds, and of the others rules 2 and 5.
C13_Witness ==
  /\ pc = "collect"
  /\ ret.kind = "dict"
  /\ ~ret.has_text_layer
  /\ ret.total_pages = MaxDocPages
  /\ ret.avg_text_density = <<1, 2>>
  /\ ret.file_size_mb = <<1, 1>>
  /\ ret.ocr_required

\* Two return values of analyze_pdf_ocr_need that are both None, or both
\* records with the same analysis.
SameAnalysis(a, b) ==
  /\ a.kind = b.kind
  /\ a.kind = "dict" =>
       /\ a.has_text_layer = b.has_text_layer
       /\ a.text_pages_ratio = b.text_pages_ratio
       /\ a.avg_text_density = b.avg_text_density
       /\ a.ocr_required = b.ocr_required
       /\ a.file_size_mb = b.file_size_mb
       /\ a.total_pages = b.total_pages

\* C14: called on the same document in the same environment (Poppler found
\* by both or by neither), analyze_pdf_ocr_need of PDF_Ocr_Analyzer and of
\* TextQualityCheck return the same record: the same avg_text_density and
\* the same ocr_required, or None both.
C14_TwinEquivalent ==
  (pc = "end" /\ estimator_calls[1] = estimator_calls[2]) =>
    SameAnalysis(results[1], results[2])

\* Both modules have analysed a document of two pages of text that render
\* half dark, with Poppler found: PDF_Ocr_Analyzer returned density 0.5 and
\* no OCR, TextQualityCheck density 0.0 and OCR required.
C14_Witness ==
  /\ pc = "end"
  /\ estimator_calls[1] = 1 /\ estimator_calls[2] = 1
  /\ results[1].kind = "dict" /\ results[2].kind = "dict"
  /\ results[1].avg_text_density = <<1, 2>> /\ ~results[1].ocr_required
  /\ results[2].avg_text_density = <<0, 1>> /\ results[2].ocr_required
  /\ HasEvent(2, "call_raised")

====
